---- MODULE Spec2Model ----
(***************************************************************************)
(* A model of mimic_w2v_tools/w2v.py: prep_w2v, the driver of the corpus   *)
(* preparation, with its two parallel phases (_gather_token_count, one     *)
(* task per document, and _write_file, one task per chunk) and the         *)
(* sequential steps between them, and _chunk_list.                         *)
(*                                                                         *)
(* Strings (paths, lines, tokens) are sequences of one-character strings,  *)
(* so that re.sub, str.split, str.lower and the digit folding are computed *)
(* character by character as the code computes them.                       *)
(***************************************************************************)
EXTENDS Integers, Sequences, FiniteSets, TLC

VARIABLES
    input_exists,      \* whether os.path.abspath(input_dir) exists on disk
    tree,              \* the input tree: candidate file -> index of its content, 0 = no such file
    n_jobs,            \* prep_w2v's n_jobs
    ratio_unknown,     \* prep_w2v's ratio_unknown, as a numerator over RatioDen
    lowercase,         \* prep_w2v's lowercase
    replace_digits,    \* prep_w2v's replace_digits
    pc,                \* position of the driving process in prep_w2v
    processing_list,   \* w2v.py:33
    results,           \* w2v.py:47, the counting tasks' results, in task order
    all_tokens,        \* w2v.py:43
    token_nb,          \* w2v.py:54
    singletons_all,    \* w2v.py:63
    singletons_sample, \* w2v.py:64
    store,             \* the file singletons.pkl
    file_path_chunks,  \* w2v.py:80
    wpos,              \* per rewrite task: -1 not started, else number of its files written
    loaded,            \* per rewrite task: what joblib.load returned (w2v.py:138)
    output             \* the files under <output_dir>/documents: path -> lines

vars == <<input_exists, tree, n_jobs, ratio_unknown, lowercase, replace_digits,
          pc, processing_list, results, all_tokens, token_nb, singletons_all,
          singletons_sample, store, file_path_chunks, wpos, loaded, output>>

(***************************************************************************)
(* Bounds of the model.                                                    *)
(***************************************************************************)
\* n_jobs ranges over -1 .. MaxJobs
MaxJobs == 4
\* ratio_unknown ranges over -1/RatioDen .. (RatioDen+1)/RatioDen and
\* random.random() over 0/RatioDen .. (RatioDen-1)/RatioDen
RatioDen == 2
\* _chunk_list alone: lists of 0 .. MaxLen elements in 1 .. MaxParts parts
MaxLen == 10
MaxParts == 8

(***************************************************************************)
(* Characters and strings.                                                 *)
(***************************************************************************)
Digits == {"0", "1", "2", "3"}

\* str.lower, one character
LowerChar(c) == CASE c = "A" -> "a" [] c = "B" -> "b" [] OTHER -> c

\* str.lower
Lower(s) == [i \in DOMAIN s |-> LowerChar(s[i])]

\* re.sub("\d", "0", s)
FoldDigits(s) == [i \in DOMAIN s |-> IF s[i] \in Digits THEN "0" ELSE s[i]]

\* re.search("\d", s)
HasDigit(s) == \E i \in DOMAIN s : s[i] \in Digits

StartsWith(s, p) == Len(p) <= Len(s) /\ SubSeq(s, 1, Len(p)) = p

\* re.sub(pat, repl, s) for a pattern of literal characters: every
\* non-overlapping occurrence, leftmost first, is replaced.
RECURSIVE ReSub(_, _, _)
ReSub(pat, repl, s) ==
    IF s = <<>> THEN <<>>
    ELSE IF StartsWith(s, pat)
         THEN repl \o ReSub(pat, repl, SubSeq(s, Len(pat) + 1, Len(s)))
         ELSE <<Head(s)>> \o ReSub(pat, repl, Tail(s))

\* s.split(" "): "" splits into [""]
RECURSIVE Split(_)
Split(s) ==
    IF \A i \in DOMAIN s : s[i] /= " " THEN <<s>>
    ELSE LET i == CHOOSE j \in DOMAIN s :
                      s[j] = " " /\ \A k \in 1..(j - 1) : s[k] /= " "
         IN  <<SubSeq(s, 1, i - 1)>> \o Split(SubSeq(s, i + 1, Len(s)))

\* " ".join(toks)
RECURSIVE JoinSpace(_)
JoinSpace(toks) ==
    IF toks = <<>> THEN <<>>
    ELSE IF Len(toks) = 1 THEN toks[1]
    ELSE toks[1] \o <<" ">> \o JoinSpace(Tail(toks))

\* os.path.join(a, b)
JoinPath(a, b) ==
    IF b /= <<>> /\ b[1] = "/" THEN b
    ELSE IF a = <<>> \/ a[Len(a)] = "/" THEN a \o b
    ELSE a \o <<"/">> \o b

\* tools.remove_abs: the path without its leading separators
RECURSIVE remove_abs(_)
remove_abs(path) ==
    IF path /= <<>> /\ path[1] = "/" THEN remove_abs(Tail(path)) ELSE path

\* re.match("^.*\.txt$", filename)
IsTxt(filename) ==
    Len(filename) >= 4
    /\ SubSeq(filename, Len(filename) - 3, Len(filename)) = <<".", "t", "x", "t">>

\* re.match("^$", line): the line holds nothing but its line break
IsBlank(line) == line = <<>>

\* the marker "#unk#"
UNK == <<"#", "u", "n", "k", "#">>

(***************************************************************************)
(* The inputs: the input tree and the configuration.                       *)
(***************************************************************************)
\* os.path.abspath(input_dir)
InputDir == <<"/", "a">>

\* os.path.join(os.path.abspath(output_dir), "documents")
DocumentOutputPath ==
    JoinPath(<<"/", "o">>, <<"d", "o", "c", "u", "m", "e", "n", "t", "s">>)

FTxt == <<"f", ".", "t", "x", "t">>
NDat == <<"n", ".", "d", "a", "t">>

\* The files an input tree may hold, in the order os.walk visits them
\* (top down). The second subdirectory's path holds the root's path again.
CandidateFiles ==
    << [root |-> InputDir, filename |-> FTxt],
       [root |-> InputDir \o <<"/", "b">>, filename |-> FTxt],
       [root |-> InputDir \o <<"/", "b", "/", "a">>, filename |-> FTxt],
       [root |-> InputDir, filename |-> NDat] >>

\* The documents a file may hold, as lines without their line breaks:
\* "Ab 2", a blank line, "c"; "ab 3"; and "c  B1", whose two spaces
\* enclose an empty token.
Contents ==
    << << <<"A", "b", " ", "2">>, <<>>, <<"c">> >>,
       << <<"a", "b", " ", "3">> >>,
       << <<"c", " ", " ", "B", "1">> >> >>

\* The input trees: each file matching .txt is absent or holds one of the
\* documents; the file that does not match is always there.
Trees ==
    { t \in [DOMAIN CandidateFiles -> {0} \cup DOMAIN Contents] :
        \A i \in DOMAIN CandidateFiles :
            ~IsTxt(CandidateFiles[i].filename) => t[i] = 1 }

NoTree == [i \in DOMAIN CandidateFiles |-> 0]

\* singletons.pkl before joblib.dump
NoStore == [written |-> FALSE, content |-> {}]

\* the lines of the file os.path.join(root, filename)
ReadFile(root, filename) ==
    LET i == CHOOSE j \in DOMAIN CandidateFiles :
                 CandidateFiles[j].root = root /\ CandidateFiles[j].filename = filename
    IN  Contents[tree[i]]

(***************************************************************************)
(* The pure parts of w2v.py.                                               *)
(***************************************************************************)
\* the token normalization of both phases
Normalize(token_str, lc, rd) ==
    LET t1 == IF lc THEN Lower(token_str) ELSE token_str
    IN  IF rd THEN FoldDigits(t1) ELSE t1

RECURSIVE Flatten(_)
Flatten(ss) == IF ss = <<>> THEN <<>> ELSE Head(ss) \o Flatten(Tail(ss))

NonBlank(line) == ~IsBlank(line)

\* the normalized tokens of a document, in reading order
DocTokens(lines, lc, rd) ==
    LET kept == SelectSeq(lines, NonBlank)
        toks == Flatten([i \in DOMAIN kept |-> Split(kept[i])])
    IN  [i \in DOMAIN toks |-> Normalize(toks[i], lc, rd)]

\* _gather_token_count: the token count dictionary of one document
_gather_token_count(root, filename, lc, rd) ==
    LET toks == DocTokens(ReadFile(root, filename), lc, rd)
    IN  [k \in {toks[i] : i \in DOMAIN toks} |->
            Cardinality({i \in DOMAIN toks : toks[i] = k})]

\* the subdir of w2v.py:39
Subdir(root) == remove_abs(ReSub(InputDir, <<>>, root))

\* os.walk with the filter and the triple of w2v.py:36-40; a path that does
\* not exist yields nothing (os.walk ignores the error of listing it).
Walk ==
    LET Found(i) == input_exists /\ tree[i] /= 0 /\ IsTxt(CandidateFiles[i].filename)
        idx == SelectSeq([i \in DOMAIN CandidateFiles |-> i], Found)
    IN  [j \in DOMAIN idx |->
            [root |-> CandidateFiles[idx[j]].root,
             filename |-> CandidateFiles[idx[j]].filename,
             subdir |-> Subdir(CandidateFiles[idx[j]].root)]]

\* the test of w2v.py:67 without its digit check
IsSingleton_count_only(k, v) == v = 1

\* the test of w2v.py:67
IsSingleton(k, v) == v = 1 /\ ~HasDigit(k)

\* random.random() < ratio_unknown
Sampled(draw, ratio) == draw < ratio

\* round(x) for x = num / den >= 0; where x is exactly halfway between two
\* integers, tieUp says which of the two the binary64 product rounds to.
Round(num, den, tieUp) ==
    LET q == num \div den
        r == num % den
    IN  IF 2 * r < den THEN q
        ELSE IF 2 * r > den THEN q + 1
        ELSE IF tieUp THEN q + 1 ELSE q

\* round(division * i) with division = len_list / nb_parts. tie[i] is read
\* only where division * i is exactly halfway, which i = 0 and i = nb_parts
\* never are.
Boundary(len_list, nb_parts, i, tie) ==
    Round(len_list * i, nb_parts, i \in DOMAIN tie /\ tie[i])

\* the_list[a:b] for 0 <= a: the positions a .. b-1 that the list has
Slice(the_list, a, b) ==
    SubSeq(the_list, a + 1, IF b < Len(the_list) THEN b ELSE Len(the_list))

\* _chunk_list with its first boundary truncated instead of rounded
chunk_list_truncated(the_list, nb_parts, tie) ==
    [i \in 1..nb_parts |->
        Slice(the_list,
              (Len(the_list) * (i - 1)) \div nb_parts,
              Boundary(Len(the_list), nb_parts, i, tie))]

\* _chunk_list with chunks of one rounded-up size
chunk_list_fixed_size(the_list, nb_parts, tie) ==
    [i \in 1..nb_parts |->
        Slice(the_list,
              ((Len(the_list) + nb_parts - 1) \div nb_parts) * (i - 1),
              ((Len(the_list) + nb_parts - 1) \div nb_parts) * i)]

\* _chunk_list
_chunk_list(the_list, nb_parts, tie) ==
    [i \in 1..nb_parts |->
        Slice(the_list,
              Boundary(Len(the_list), nb_parts, i - 1, tie),
              Boundary(Len(the_list), nb_parts, i, tie))]

\* what round may return at the halfway points: one choice per boundary
Ties(nb_parts) == [1..(nb_parts - 1) -> BOOLEAN]

\* the flags _write_file runs with: the call of w2v.py:83 passes none, so
\* they are the defaults of w2v.py:126
WriteFileFlags == [lowercase |-> TRUE, replace_digits |-> TRUE]

\* w2v.py:147
TargetPath(d) == JoinPath(JoinPath(DocumentOutputPath, d.subdir), d.filename)

\* w2v.py:159-173, one line
RewriteLine(line, singletons, lc, rd) ==
    LET toks == Split(line)
        Sub(tok) == IF tok \in singletons THEN UNK ELSE tok
    IN  JoinSpace([i \in DOMAIN toks |-> Sub(Normalize(toks[i], lc, rd))])

\* w2v.py:149-176: the lines written for one document
RewriteDoc(lines, singletons, lc, rd) ==
    LET kept == SelectSeq(lines, NonBlank)
    IN  [i \in DOMAIN kept |-> RewriteLine(kept[i], singletons, lc, rd)]

\* the output files after one document is written
WriteDoc(out, d, singletons) ==
    LET p == TargetPath(d)
        c == RewriteDoc(ReadFile(d.root, d.filename), singletons,
                        WriteFileFlags.lowercase, WriteFileFlags.replace_digits)
    IN  [q \in DOMAIN out \cup {p} |-> IF q = p THEN c ELSE out[q]]

RECURSIVE SumResults(_, _)
SumResults(rs, k) ==
    IF rs = <<>> THEN 0
    ELSE (IF k \in DOMAIN Head(rs) THEN Head(rs)[k] ELSE 0) + SumResults(Tail(rs), k)

\* w2v.py:57-60
MergeResults(rs) ==
    [k \in UNION {DOMAIN rs[i] : i \in DOMAIN rs} |-> SumResults(rs, k)]

RECURSIVE SumTable(_)
SumTable(t) ==
    IF DOMAIN t = {} THEN 0
    ELSE LET k == CHOOSE x \in DOMAIN t : TRUE
         IN  t[k] + SumTable([x \in DOMAIN t \ {k} |-> t[x]])

EmptyFn == [x \in {} |-> 0]

\* a counting task that has not returned yet
NoResult == [done |-> FALSE, table |-> EmptyFn]

(***************************************************************************)
(* The state machine of prep_w2v.                                          *)
(***************************************************************************)
Configs ==
    /\ n_jobs \in -1..MaxJobs
    /\ ratio_unknown \in -1..(RatioDen + 1)
    /\ lowercase \in BOOLEAN
    /\ replace_digits \in BOOLEAN

Fresh ==
    /\ results = <<>>
    /\ all_tokens = EmptyFn
    /\ token_nb = 0
    /\ singletons_all = {}
    /\ singletons_sample = {}
    /\ store = NoStore
    /\ file_path_chunks = <<>>
    /\ wpos = <<>>
    /\ loaded = <<>>
    /\ output = EmptyFn

Init ==
    /\ input_exists \in BOOLEAN
    /\ tree \in (IF input_exists THEN Trees ELSE {NoTree})
    /\ Configs
    /\ pc = "start"
    /\ processing_list = <<>>
    /\ Fresh

\* w2v.py:32-40
Discover ==
    /\ pc = "start"
    /\ processing_list' = Walk
    /\ results' = [i \in DOMAIN Walk |-> NoResult]
    /\ pc' = "count"
    /\ UNCHANGED <<input_exists, tree, n_jobs, ratio_unknown, lowercase, replace_digits,
                   all_tokens, token_nb, singletons_all, singletons_sample, store,
                   file_path_chunks, wpos, loaded, output>>

\* Parallel(n_jobs=0) raises ValueError
ParallelRejects ==
    /\ pc = "count"
    /\ n_jobs = 0
    /\ pc' = "error"
    /\ UNCHANGED <<input_exists, tree, n_jobs, ratio_unknown, lowercase, replace_digits,
                   processing_list, results, all_tokens, token_nb, singletons_all,
                   singletons_sample, store, file_path_chunks, wpos, loaded, output>>

\* w2v.py:47-49, one counting task
CountTask(i) ==
    /\ pc = "count"
    /\ n_jobs /= 0
    /\ ~results[i].done
    /\ results' = [results EXCEPT ![i] =
                      [done |-> TRUE,
                       table |-> _gather_token_count(processing_list[i].root,
                                                     processing_list[i].filename,
                                                     lowercase, replace_digits)]]
    /\ UNCHANGED <<input_exists, tree, n_jobs, ratio_unknown, lowercase, replace_digits,
                   pc, processing_list, all_tokens, token_nb, singletons_all,
                   singletons_sample, store, file_path_chunks, wpos, loaded, output>>

\* w2v.py:53-60: Parallel has returned every result
Merge ==
    /\ pc = "count"
    /\ n_jobs /= 0
    /\ \A i \in DOMAIN results : results[i].done
    /\ all_tokens' = MergeResults([i \in DOMAIN results |-> results[i].table])
    /\ token_nb' = SumTable(MergeResults([i \in DOMAIN results |-> results[i].table]))
    /\ pc' = "sample"
    /\ UNCHANGED <<input_exists, tree, n_jobs, ratio_unknown, lowercase, replace_digits,
                   processing_list, results, singletons_all, singletons_sample, store,
                   file_path_chunks, wpos, loaded, output>>

\* w2v.py:62-70
Sample ==
    /\ pc = "sample"
    /\ LET cand == {k \in DOMAIN all_tokens : IsSingleton(k, all_tokens[k])}
       IN  /\ singletons_all' = cand
           /\ \E draw \in [cand -> 0..(RatioDen - 1)] :
                 singletons_sample' = {k \in cand : Sampled(draw[k], ratio_unknown)}
    /\ pc' = "dump"
    /\ UNCHANGED <<input_exists, tree, n_jobs, ratio_unknown, lowercase, replace_digits,
                   processing_list, results, all_tokens, token_nb, store,
                   file_path_chunks, wpos, loaded, output>>

\* w2v.py:76-77
Dump ==
    /\ pc = "dump"
    /\ store' = [written |-> TRUE, content |-> singletons_sample]
    /\ pc' = "chunk"
    /\ UNCHANGED <<input_exists, tree, n_jobs, ratio_unknown, lowercase, replace_digits,
                   processing_list, results, all_tokens, token_nb, singletons_all,
                   singletons_sample, file_path_chunks, wpos, loaded, output>>

\* the chunking and the launch of the rewrite tasks moved before the dump
Chunk_before_dump ==
    /\ pc \in {"dump", "chunk"}
    /\ \E tie \in Ties(n_jobs) :
          file_path_chunks' = _chunk_list(processing_list, n_jobs, tie)
    /\ wpos' = [t \in 1..n_jobs |-> -1]
    /\ loaded' = [t \in 1..n_jobs |-> NoStore]
    /\ pc' = "rewrite"
    /\ UNCHANGED <<input_exists, tree, n_jobs, ratio_unknown, lowercase, replace_digits,
                   processing_list, results, all_tokens, token_nb, singletons_all,
                   singletons_sample, store, output>>

\* w2v.py:79-80
Chunk ==
    /\ pc = "chunk"
    /\ \E tie \in Ties(n_jobs) :
          file_path_chunks' = _chunk_list(processing_list, n_jobs, tie)
    /\ wpos' = [t \in 1..n_jobs |-> -1]
    /\ loaded' = [t \in 1..n_jobs |-> NoStore]
    /\ pc' = "rewrite"
    /\ UNCHANGED <<input_exists, tree, n_jobs, ratio_unknown, lowercase, replace_digits,
                   processing_list, results, all_tokens, token_nb, singletons_all,
                   singletons_sample, store, output>>

\* w2v.py:137-138: a rewrite task starts and loads the singletons. There are
\* n_jobs tasks for n_jobs workers, so a task never waits for a worker.
StartWrite(t) ==
    /\ pc = "rewrite"
    /\ wpos[t] = -1
    /\ loaded' = [loaded EXCEPT ![t] = store]
    /\ wpos' = [wpos EXCEPT ![t] = 0]
    /\ UNCHANGED <<input_exists, tree, n_jobs, ratio_unknown, lowercase, replace_digits,
                   pc, processing_list, results, all_tokens, token_nb, singletons_all,
                   singletons_sample, store, file_path_chunks, output>>

\* w2v.py:140-176: a rewrite task writes the next file of its chunk. The
\* file is written in one step: two tasks writing one path leave the lines
\* of the one that wrote last.
WriteOne(t) ==
    /\ pc = "rewrite"
    /\ wpos[t] >= 0
    /\ wpos[t] < Len(file_path_chunks[t])
    /\ output' = WriteDoc(output, file_path_chunks[t][wpos[t] + 1], loaded[t].content)
    /\ wpos' = [wpos EXCEPT ![t] = @ + 1]
    /\ UNCHANGED <<input_exists, tree, n_jobs, ratio_unknown, lowercase, replace_digits,
                   pc, processing_list, results, all_tokens, token_nb, singletons_all,
                   singletons_sample, store, file_path_chunks, loaded>>

\* w2v.py:83-86: Parallel has returned, every rewrite task is over
Finish ==
    /\ pc = "rewrite"
    /\ \A t \in DOMAIN wpos : wpos[t] = Len(file_path_chunks[t])
    /\ pc' = "done"
    /\ UNCHANGED <<input_exists, tree, n_jobs, ratio_unknown, lowercase, replace_digits,
                   processing_list, results, all_tokens, token_nb, singletons_all,
                   singletons_sample, store, file_path_chunks, wpos, loaded, output>>

Next ==
    \/ Discover
    \/ ParallelRejects
    \/ \E i \in DOMAIN results : CountTask(i)
    \/ Merge
    \/ Sample
    \/ Dump
    \/ Chunk
    \/ \E t \in DOMAIN wpos : StartWrite(t)
    \/ \E t \in DOMAIN wpos : WriteOne(t)
    \/ Finish

Spec == Init /\ [][Next]_vars

(***************************************************************************)
(* _chunk_list alone: any list length and any number of parts >= 1.        *)
(***************************************************************************)
InitChunk ==
    /\ input_exists = TRUE
    /\ tree = NoTree
    /\ n_jobs \in 1..MaxParts
    /\ ratio_unknown = 1
    /\ lowercase = TRUE
    /\ replace_digits = TRUE
    /\ pc = "chunk"
    /\ \E len \in 0..MaxLen : processing_list = [i \in 1..len |-> i]
    /\ Fresh

SpecChunk == InitChunk /\ [][Chunk]_vars

(***************************************************************************)
(* The properties.                                                         *)
(***************************************************************************)
\* the tokens of a document as split from its lines, before normalization
RawTokens(lines) ==
    LET kept == SelectSeq(lines, NonBlank)
    IN  Flatten([i \in DOMAIN kept |-> Split(kept[i])])

Started(t) == wpos[t] >= 0

\* C1: every raw token of a document handed to a rewrite task is normalized
\* by the rewrite task exactly as the counting task normalized it, whatever
\* flags prep_w2v was given.
C1_SameNormalization ==
    \A t \in DOMAIN wpos : Started(t) =>
        \A j \in DOMAIN file_path_chunks[t] :
            LET d == file_path_chunks[t][j]
                raw == RawTokens(ReadFile(d.root, d.filename))
            IN  \A k \in DOMAIN raw :
                    Normalize(raw[k], WriteFileFlags.lowercase, WriteFileFlags.replace_digits)
                        = Normalize(raw[k], lowercase, replace_digits)

ChunkSizes == [i \in DOMAIN file_path_chunks |-> Len(file_path_chunks[i])]

\* C2: for n >= 1, _chunk_list returns exactly n chunks and their
\* concatenation in order is the original list.
C2_ChunksPartition ==
    (pc = "rewrite" /\ n_jobs >= 1) =>
        /\ Len(file_path_chunks) = n_jobs
        /\ Flatten(file_path_chunks) = processing_list

\* C2's case: more parts than elements, and a length the parts do not divide
C2_Witness ==
    /\ pc = "rewrite"
    /\ Len(processing_list) = 3
    /\ n_jobs = 5
    /\ \E i \in DOMAIN file_path_chunks : file_path_chunks[i] = <<>>
    /\ \E i \in DOMAIN file_path_chunks : file_path_chunks[i] /= <<>>

\* the path of a directory relative to the input root
RelativeDir(root) == SubSeq(root, Len(InputDir) + 2, Len(root))

\* C3: every discovered document is written at its own relative path under
\* the output root, and two distinct documents never share an output path.
C3_MirroredDisjointPaths ==
    /\ \A i \in DOMAIN processing_list :
          TargetPath(processing_list[i])
              = JoinPath(JoinPath(DocumentOutputPath, RelativeDir(processing_list[i].root)),
                         processing_list[i].filename)
    /\ \A i, j \in DOMAIN processing_list :
          i /= j => TargetPath(processing_list[i]) /= TargetPath(processing_list[j])

\* C4: a rewrite task has started only after every counting task returned,
\* the table was merged, the singletons sampled and the store written, and
\* it loaded exactly the sampled set; once written the store never changes.
C4_Barrier ==
    /\ [](\A t \in DOMAIN wpos : Started(t) =>
            /\ pc \in {"rewrite", "done"}
            /\ \A i \in DOMAIN results : results[i].done
            /\ all_tokens = MergeResults([i \in DOMAIN results |-> results[i].table])
            /\ store = [written |-> TRUE, content |-> singletons_sample]
            /\ loaded[t] = [written |-> TRUE, content |-> singletons_sample])
    /\ [][store.written => store' = store]_vars

\* C4's case: a rewrite task that loaded a non-empty set has written a file
C4_Witness ==
    \E t \in DOMAIN wpos : wpos[t] >= 1 /\ loaded[t].content /= {}

\* the number of token positions of the discovered documents that normalize to k
CorpusCount(k) ==
    LET toks == Flatten([i \in DOMAIN processing_list |->
                    DocTokens(ReadFile(processing_list[i].root, processing_list[i].filename),
                              lowercase, replace_digits)])
    IN  Cardinality({i \in DOMAIN toks : toks[i] = k})

\* C5: the sampled singletons are singletons, and every singleton occurs
\* exactly once in the corpus and holds no digit.
C5_SingletonSets ==
    /\ singletons_sample \subseteq singletons_all
    /\ \A k \in singletons_all :
          /\ k \in DOMAIN all_tokens
          /\ all_tokens[k] = 1
          /\ CorpusCount(k) = 1
          /\ ~HasDigit(k)

\* C5's case: some but not all singletons are sampled, and a token that
\* occurs once holds a digit (the folded "0")
C5_Witness ==
    /\ pc = "dump"
    /\ singletons_sample /= {}
    /\ singletons_sample /= singletons_all
    /\ <<"0">> \in DOMAIN all_tokens
    /\ all_tokens[<<"0">>] = 1

RECURSIVE WriteAll(_, _, _)
WriteAll(out, docs, singletons) ==
    IF docs = <<>> THEN out
    ELSE WriteAll(WriteDoc(out, Head(docs), singletons), Tail(docs), singletons)

\* the output tree of the run with n_jobs = 1: one task writes every
\* document in the order of the list
SequentialOutput == WriteAll(EmptyFn, processing_list, store.content)

\* C6: a completed run with any n_jobs >= 1 leaves the output tree that the
\* run with n_jobs = 1 leaves for the same input and the same sampled set.
C6_SameAsOneJob ==
    (pc = "done" /\ n_jobs >= 1) => output = SequentialOutput

\* C7: with a missing input directory the run fails in discovery and writes
\* no store; with an existing directory discovery does not fail.
C7_MissingInputAborts ==
    /\ ~input_exists => (pc \in {"start", "error"} /\ ~store.written)
    /\ (input_exists /\ pc = "error") => n_jobs = 0

InvalidConfig ==
    n_jobs < 1 \/ ratio_unknown < 0 \/ ratio_unknown > RatioDen

\* C8: no run with an invalid configuration completes, and a completed run
\* has written every discovered document.
C8_InvalidConfigRejected ==
    /\ InvalidConfig => pc /= "done"
    /\ pc = "done" =>
          \A i \in DOMAIN processing_list : TargetPath(processing_list[i]) \in DOMAIN output

\* C9: for n >= 1 the chunk sizes differ by at most one, and the boundaries
\* round(len / n * i), i = 0 .. n, run from 0 to len without ever decreasing,
\* whichever way round settles the halfway points.
C9_ChunkSizesBalanced ==
    (pc = "rewrite" /\ n_jobs >= 1) =>
        /\ \A i, j \in DOMAIN file_path_chunks : ChunkSizes[i] - ChunkSizes[j] <= 1
        /\ \A tie \in Ties(n_jobs) :
              LET B(i) == Boundary(Len(processing_list), n_jobs, i, tie)
              IN  /\ B(0) = 0
                  /\ B(n_jobs) = Len(processing_list)
                  /\ \A i \in 0..(n_jobs - 1) : B(i) <= B(i + 1)
        /\ \E tie \in Ties(n_jobs) :
              file_path_chunks = _chunk_list(processing_list, n_jobs, tie)

\* C9's case: chunks of two sizes with a boundary at a halfway point
\* (6 elements in 4 parts: 1.5, 3.0, 4.5)
C9_Witness ==
    /\ pc = "rewrite"
    /\ Len(processing_list) = 6
    /\ n_jobs = 4
    /\ \E i, j \in DOMAIN file_path_chunks : ChunkSizes[i] = ChunkSizes[j] + 1

\* the token positions of the output tree that hold the marker
MarkerPositions ==
    { <<p, l, k>> \in
        UNION { UNION { {<<p, l, k>> : k \in DOMAIN Split(output[p][l])}
                         : l \in DOMAIN output[p] } : p \in DOMAIN output } :
        Split(output[p][l])[k] = UNK }

\* C10: in a completed run with the default flags and n_jobs >= 1, every
\* document's output holds, line by line and token by token, the marker
\* where the normalized token is a sampled singleton and the normalized
\* token elsewhere; the markers are as many as the sampled singletons.
C10_SubstitutionExact ==
    (pc = "done" /\ lowercase /\ replace_digits /\ n_jobs >= 1) =>
        /\ \A i \in DOMAIN processing_list :
              LET d == processing_list[i]
                  kept == SelectSeq(ReadFile(d.root, d.filename), NonBlank)
              IN  /\ TargetPath(d) \in DOMAIN output
                  /\ LET out == output[TargetPath(d)]
                     IN  /\ Len(out) = Len(kept)
                         /\ \A l \in DOMAIN kept :
                               l \in DOMAIN out =>
                               LET o == Split(out[l])
                                   r == Split(kept[l])
                               IN  /\ Len(o) = Len(r)
                                   /\ \A k \in DOMAIN r :
                                         k \in DOMAIN o =>
                                         LET norm == Normalize(r[k], TRUE, TRUE)
                                         IN  o[k] = IF norm \in singletons_sample
                                                    THEN UNK ELSE norm
        /\ Cardinality(MarkerPositions) = Cardinality(singletons_sample)

====
